---- MODULE Spec2Model ----
(***************************************************************************)
(* Lookup layer of bandeiras-municipios-br: the lazily built code index,   *)
(* the municipality lookups (municipios.ts) and the flag path resolution   *)
(* (flags.ts), over a dataset artifact loaded once (data.ts).              *)
(*                                                                         *)
(* Strings are sequences of one-character strings, so that concatenation,  *)
(* toLowerCase, trim, includes, endsWith and slice are computed as the     *)
(* JavaScript built-ins compute them.                                      *)
(***************************************************************************)
EXTENDS Integers, Sequences, FiniteSets, TLC

\* Longest record list the dataset artifact holds in the model.
MaxRecords == 3

(***************************************************************************)
(* JavaScript string built-ins                                             *)
(***************************************************************************)
Digits == <<"0", "1", "2", "3", "4", "5", "6", "7", "8", "9">>

\* Number -> string conversion of a template literal, for integers.
RECURSIVE NumberToString(_)
NumberToString(n) ==
  IF n < 0 THEN <<"-">> \o NumberToString(0 - n)
  ELSE IF n < 10 THEN <<Digits[n + 1]>>
  ELSE NumberToString(n \div 10) \o <<Digits[(n % 10) + 1]>>

\* Cased letters of the model's alphabet: upper-case letter :> lower-case letter.
LowerOf ==
  ("A" :> "a") @@ ("B" :> "b") @@ ("C" :> "c") @@ ("D" :> "d") @@ ("E" :> "e") @@
  ("F" :> "f") @@ ("G" :> "g") @@ ("H" :> "h") @@ ("I" :> "i") @@ ("J" :> "j") @@
  ("K" :> "k") @@ ("L" :> "l") @@ ("M" :> "m") @@ ("N" :> "n") @@ ("O" :> "o") @@
  ("P" :> "p") @@ ("Q" :> "q") @@ ("R" :> "r") @@ ("S" :> "s") @@ ("T" :> "t") @@
  ("U" :> "u") @@ ("V" :> "v") @@ ("W" :> "w") @@ ("X" :> "x") @@ ("Y" :> "y") @@
  ("Z" :> "z") @@ ("Ã" :> "ã") @@ ("Á" :> "á") @@ ("Ç" :> "ç")

toLowerCase(s) ==
  [i \in 1..Len(s) |-> IF s[i] \in DOMAIN LowerOf THEN LowerOf[s[i]] ELSE s[i]]

WhiteSpace == {" ", "\t", "\n"}

RECURSIVE trimStart(_)
trimStart(s) ==
  IF Len(s) > 0 /\ s[1] \in WhiteSpace THEN trimStart(Tail(s)) ELSE s

RECURSIVE trimEnd(_)
trimEnd(s) ==
  IF Len(s) > 0 /\ s[Len(s)] \in WhiteSpace
  THEN trimEnd(SubSeq(s, 1, Len(s) - 1)) ELSE s

trim(s) == trimEnd(trimStart(s))

\* s.includes(q)
includes(s, q) ==
  \E i \in 0..(Len(s) - Len(q)) : SubSeq(s, i + 1, i + Len(q)) = q

\* s.endsWith(t)
endsWith(s, t) ==
  Len(s) >= Len(t) /\ SubSeq(s, Len(s) - Len(t) + 1, Len(s)) = t

\* s.slice(0, -1)
sliceDropLast(s) == SubSeq(s, 1, Len(s) - 1)

(***************************************************************************)
(* types.ts, constants.ts                                                  *)
(***************************************************************************)
Full == <<"f","u","l","l">>
Rounded == <<"r","o","u","n","d","e","d">>
Circle == <<"c","i","r","c","l","e">>
SquareRounded == <<"s","q","u","a","r","e","-","r","o","u","n","d","e","d">>
Sq == <<"s","q">>
Svg == <<"s","v","g">>
Png == <<"p","n","g">>
Png200 == <<"p","n","g","-","2","0","0">>
Png800 == <<"p","n","g","-","8","0","0">>

FlagStyle == {Full, Rounded, Circle, SquareRounded}

FlagFormat == {Svg, Png200, Png800}

ALL_UFS ==
  { <<"A","C">>, <<"A","L">>, <<"A","M">>, <<"A","P">>, <<"B","A">>, <<"C","E">>,
    <<"D","F">>, <<"E","S">>, <<"G","O">>, <<"M","A">>, <<"M","G">>, <<"M","S">>,
    <<"M","T">>, <<"P","A">>, <<"P","B">>, <<"P","E">>, <<"P","I">>, <<"P","R">>,
    <<"R","J">>, <<"R","N">>, <<"R","O">>, <<"R","R">>, <<"R","S">>, <<"S","C">>,
    <<"S","E">>, <<"S","P">>, <<"T","O">> }

SP == <<"S","P">>
RJ == <<"R","J">>

(***************************************************************************)
(* flags.ts: pure helpers                                                  *)
(***************************************************************************)
STYLE_SUFFIX ==
  (Full :> Full) @@ (Rounded :> Rounded) @@ (Circle :> Circle) @@
  (SquareRounded :> Sq)

\* The key is joined with "-" instead of "_".
iconKeyDash(style, format) == style \o <<"-">> \o format

iconKey(style, format) == style \o <<"_">> \o format

\* The style name is used as the file-name suffix.
buildFlagPathStyleSuffix(uf, ibgeCode, slug, style, format) ==
  LET ext == IF format = Svg THEN Svg ELSE Png
  IN  style \o <<"/">> \o format \o <<"/">> \o uf \o <<"/">> \o
      NumberToString(ibgeCode) \o <<"-">> \o slug \o <<"-">> \o style \o
      <<".">> \o ext

\* The extension is used as the format directory.
buildFlagPathExtDir(uf, ibgeCode, slug, style, format) ==
  LET suffix == STYLE_SUFFIX[style]
      ext == IF format = Svg THEN Svg ELSE Png
  IN  style \o <<"/">> \o ext \o <<"/">> \o uf \o <<"/">> \o
      NumberToString(ibgeCode) \o <<"-">> \o slug \o <<"-">> \o suffix \o
      <<".">> \o ext

buildFlagPath(uf, ibgeCode, slug, style, format) ==
  LET suffix == STYLE_SUFFIX[style]
      ext == IF format = Svg THEN Svg ELSE Png
  IN  style \o <<"/">> \o format \o <<"/">> \o uf \o <<"/">> \o
      NumberToString(ibgeCode) \o <<"-">> \o slug \o <<"-">> \o suffix \o
      <<".">> \o ext

(***************************************************************************)
(* The dataset artifact (database/*.json), produced by the offline build.  *)
(***************************************************************************)
\* The keys of a complete icon-path map (interface MunicipioIcons).
MunicipioIcons ==
  { <<"f","u","l","l","_","s","v","g">>,
    <<"f","u","l","l","_","p","n","g","-","2","0","0">>,
    <<"f","u","l","l","_","p","n","g","-","8","0","0">>,
    <<"r","o","u","n","d","e","d","_","s","v","g">>,
    <<"r","o","u","n","d","e","d","_","p","n","g","-","2","0","0">>,
    <<"r","o","u","n","d","e","d","_","p","n","g","-","8","0","0">>,
    <<"c","i","r","c","l","e","_","s","v","g">>,
    <<"c","i","r","c","l","e","_","p","n","g","-","2","0","0">>,
    <<"c","i","r","c","l","e","_","p","n","g","-","8","0","0">>,
    <<"s","q","u","a","r","e","-","r","o","u","n","d","e","d","_","s","v","g">>,
    <<"s","q","u","a","r","e","-","r","o","u","n","d","e","d","_","p","n","g","-","2","0","0">>,
    <<"s","q","u","a","r","e","-","r","o","u","n","d","e","d","_","p","n","g","-","8","0","0">> }

\* The 12-entry icon-path map the build writes for a municipality with icons:
\* under each key, the path of the naming convention for its style and format.
FullIcons(uf, ibgeCode, slug) ==
  [k \in MunicipioIcons |->
     LET sf == CHOOSE p \in FlagStyle \X FlagFormat : p[1] \o <<"_">> \o p[2] = k
     IN  buildFlagPath(uf, ibgeCode, slug, sf[1], sf[2])]

NoIcons == [present |-> FALSE, map |-> <<>>]

Municipio(ibgeCode, name, slug, uf, hasFlag, hasIcons, icons) ==
  [ibge_code |-> ibgeCode, name |-> name, slug |-> slug, uf |-> uf,
   has_flag |-> hasFlag, has_icons |-> hasIcons, icons |-> icons]

\* Records the artifact may hold. The fourth repeats the first's code and has
\* an incomplete icon map: a defective artifact the library must still serve.
Records ==
  { Municipio(1, <<"S","ã","o">>, <<"s","a","o">>, SP, TRUE, TRUE,
              [present |-> TRUE, map |-> FullIcons(SP, 1, <<"s","a","o">>)]),
    Municipio(2, <<"R","I","O">>, <<"r","i","o","-","x">>, RJ, TRUE, FALSE,
              NoIcons),
    Municipio(12, <<"A"," ","B">>, <<"a","-","b">>, SP, TRUE, TRUE,
              [present |-> TRUE, map |-> FullIcons(SP, 12, <<"a","-","b">>)]),
    Municipio(1, <<"A","b">>, <<"a","b">>, RJ, TRUE, TRUE,
              [present |-> TRUE,
               map |-> (<<"c","i","r","c","l","e","_","s","v","g">> :>
                          buildFlagPath(RJ, 1, <<"a","b">>, Circle, Svg))]) }

RECURSIVE SeqsUpTo(_, _)
SeqsUpTo(S, n) ==
  IF n = 0 THEN { <<>> }
  ELSE LET shorter == SeqsUpTo(S, n - 1)
       IN  shorter \cup { Append(s, x) : s \in shorter, x \in S }

\* municipios-by-uf.json: the record list grouped by uf.
GroupByUf(ms) ==
  [u \in { ms[i].uf : i \in DOMAIN ms } |-> SelectSeq(ms, LAMBDA m : m.uf = u)]

\* stats.json: counts derived from the record list.
StatsOf(ms) ==
  [total_municipios |-> Len(ms),
   total_with_icons |-> Len(SelectSeq(ms, LAMBDA m : m.has_icons)),
   by_uf |-> [u \in ALL_UFS |->
     [total |-> Len(SelectSeq(ms, LAMBDA m : m.uf = u)),
      with_icons |-> Len(SelectSeq(ms, LAMBDA m : m.uf = u /\ m.has_icons))]]]

(***************************************************************************)
(* State                                                                   *)
(***************************************************************************)
VARIABLES
  municipios,      \* data.ts: the full record list
  municipiosByUf,  \* data.ts: the records grouped by uf
  stats,           \* data.ts: the coverage statistics
  _index,          \* municipios.ts: the lazily built index, null until built
  indexBuilds,     \* how many times getIndex has run its build loop
  call,            \* the last library call: its name and arguments
  result           \* what that call returned

vars == <<municipios, municipiosByUf, stats, _index, indexBuilds, call, result>>

data == <<municipios, municipiosByUf, stats>>

Null == [built |-> FALSE, map |-> <<>>]

Init ==
  /\ municipios \in SeqsUpTo(Records, MaxRecords)
  /\ municipiosByUf = GroupByUf(municipios)
  /\ stats = StatsOf(municipios)
  /\ _index = Null
  /\ indexBuilds = 0
  /\ call = [op |-> "none"]
  /\ result = [kind |-> "none"]

(***************************************************************************)
(* municipios.ts                                                           *)
(***************************************************************************)
\* `if (!_index.has(k)) _index.set(k, v)`: an existing entry is kept.
MapSetIfAbsent(map, k, v) ==
  [x \in (DOMAIN map) \cup {k} |-> IF x \in DOMAIN map THEN map[x] ELSE v]

\* Map.prototype.set
MapSet(map, k, v) ==
  [x \in (DOMAIN map) \cup {k} |-> IF x = k THEN v ELSE map[x]]

\* `for (const m of municipios) _index.set(m.ibge_code, m)` from record i on.
RECURSIVE IndexLoop(_, _, _)
IndexLoop(map, ms, i) ==
  IF i > Len(ms) THEN map
  ELSE IndexLoop(MapSet(map, ms[i].ibge_code, ms[i]), ms, i + 1)

\* The loop starts one record late.
BuildIndexSkipFirst(ms) == IndexLoop(<<>>, ms, 2)

BuildIndex(ms) == IndexLoop(<<>>, ms, 1)

\* `if (!_index || _index.size === 0)`: an empty index counts as missing.
IndexMissingOrEmpty(idx) == ~idx.built \/ DOMAIN idx.map = {}

\* `if (!_index)`
IndexMissing(idx) == ~idx.built

getIndex(idx, ms) ==
  IF IndexMissing(idx) THEN [built |-> TRUE, map |-> BuildIndex(ms)] ELSE idx

\* The effect of a getIndex() call on the module state.
GetIndexEffect ==
  /\ _index' = getIndex(_index, municipios)
  /\ indexBuilds' = IF IndexMissing(_index) THEN indexBuilds + 1 ELSE indexBuilds

\* getIndex().get(ibgeCode)
getMunicipio(idx, ms, ibgeCode) ==
  LET map == getIndex(idx, ms).map
  IN  IF ibgeCode \in DOMAIN map
      THEN [kind |-> "record", val |-> map[ibgeCode]]
      ELSE [kind |-> "undefined"]

Codes == {1, 2, 12, 9}

\* No call is in progress: the previous one, if any, has returned to its caller.
Idle == call.op = "none"

\* The caller takes the returned value; the library waits for the next call.
Return ==
  /\ ~Idle
  /\ call' = [op |-> "none"]
  /\ result' = [kind |-> "none"]
  /\ UNCHANGED <<data, _index, indexBuilds>>

GetMunicipio(ibgeCode) ==
  /\ Idle
  /\ GetIndexEffect
  /\ call' = [op |-> "getMunicipio", ibgeCode |-> ibgeCode]
  /\ result' = getMunicipio(_index, municipios, ibgeCode)
  /\ UNCHANGED data

\* Properties every plain object inherits from Object.prototype: reading one
\* of them from municipiosByUf yields a function or object, never undefined.
ObjectPrototypeKeys ==
  { <<"c","o","n","s","t","r","u","c","t","o","r">>,
    <<"t","o","S","t","r","i","n","g">>,
    <<"_","_","p","r","o","t","o","_","_">> }

\* `municipiosByUf[uf.toLowerCase()] ?? []`: the key is lower-cased first.
getMunicipiosByUfLower(byUf, uf) ==
  IF toLowerCase(uf) \in DOMAIN byUf
  THEN [kind |-> "array", val |-> byUf[toLowerCase(uf)]]
  ELSE [kind |-> "array", val |-> <<>>]

\* `municipiosByUf[uf] ?? []`
getMunicipiosByUf(byUf, uf) ==
  IF uf \in DOMAIN byUf THEN [kind |-> "array", val |-> byUf[uf]]
  ELSE IF uf \in ObjectPrototypeKeys THEN [kind |-> "inherited"]
  ELSE [kind |-> "array", val |-> <<>>]

\* An optional argument: passed with a value, or left out (undefined).
Undefined == [given |-> FALSE]

Given(v) == [given |-> TRUE, val |-> v]

\* Truthiness of an optional string: undefined and "" are falsy.
Truthy(arg) == arg.given /\ Len(arg.val) > 0

\* The filter reads has_flag instead of has_icons.
getMunicipiosWithFlagsHasFlag(ms, byUf, uf) ==
  LET source == IF Truthy(uf) THEN getMunicipiosByUf(byUf, uf.val)
                ELSE [kind |-> "array", val |-> ms]
  IN  IF source.kind = "array"
      THEN [kind |-> "array", val |-> SelectSeq(source.val, LAMBDA m : m.has_flag)]
      ELSE [kind |-> "TypeError"]

getMunicipiosWithFlags(ms, byUf, uf) ==
  LET source == IF Truthy(uf) THEN getMunicipiosByUf(byUf, uf.val)
                ELSE [kind |-> "array", val |-> ms]
  IN  IF source.kind = "array"
      THEN [kind |-> "array", val |-> SelectSeq(source.val, LAMBDA m : m.has_icons)]
      ELSE [kind |-> "TypeError"]  \* source.filter is not a function

\* The name is matched without being lower-cased.
searchMunicipiosNoLower(ms, query) ==
  LET q == trim(toLowerCase(query))
  IN  IF Len(q) = 0 THEN [kind |-> "array", val |-> <<>>]
      ELSE [kind |-> "array",
            val |-> SelectSeq(ms, LAMBDA m :
                      includes(m.name, q) \/ includes(m.slug, q))]

searchMunicipios(ms, query) ==
  LET q == trim(toLowerCase(query))
  IN  IF Len(q) = 0 THEN [kind |-> "array", val |-> <<>>]
      ELSE [kind |-> "array",
            val |-> SelectSeq(ms, LAMBDA m :
                      includes(toLowerCase(m.name), q) \/ includes(m.slug, q))]

(***************************************************************************)
(* flags.ts: dataset-backed resolution                                     *)
(***************************************************************************)
getFlagPath(idx, ms, ibgeCode, style, format) ==
  LET m == getMunicipio(idx, ms, ibgeCode)
  IN  IF m.kind = "undefined" \/ ~m.val.icons.present THEN [kind |-> "null"]
      ELSE LET key == iconKey(style, format)
           IN  IF key \in DOMAIN m.val.icons.map
               THEN [kind |-> "string", val |-> m.val.icons.map[key]]
               ELSE [kind |-> "null"]

\* The trailing separator is kept.
stripBaseNone(baseUrl) == baseUrl

\* `baseUrl.endsWith("/") ? baseUrl.slice(0, -1) : baseUrl`
stripBase(baseUrl) ==
  IF endsWith(baseUrl, <<"/">>) THEN sliceDropLast(baseUrl) ELSE baseUrl

getFlagUrl(idx, ms, ibgeCode, style, format, baseUrl) ==
  LET path == getFlagPath(idx, ms, ibgeCode, style, format)
  IN  IF path.kind = "null" \/ Len(path.val) = 0 THEN [kind |-> "null"]
      ELSE [kind |-> "string", val |-> stripBase(baseUrl) \o <<"/">> \o path.val]

getAllFlagPaths(idx, ms, ibgeCode) ==
  LET m == getMunicipio(idx, ms, ibgeCode)
  IN  IF m.kind = "undefined" \/ ~m.val.icons.present THEN [kind |-> "null"]
      ELSE [kind |-> "icons", val |-> m.val.icons.map]

(***************************************************************************)
(* The library calls                                                       *)
(***************************************************************************)
GetMunicipiosByUf(uf) ==
  /\ Idle
  /\ call' = [op |-> "getMunicipiosByUf", uf |-> uf]
  /\ result' = getMunicipiosByUf(municipiosByUf, uf)
  /\ UNCHANGED <<data, _index, indexBuilds>>

GetMunicipiosWithFlags(uf) ==
  /\ Idle
  /\ call' = [op |-> "getMunicipiosWithFlags", uf |-> uf]
  /\ result' = getMunicipiosWithFlags(municipios, municipiosByUf, uf)
  /\ UNCHANGED <<data, _index, indexBuilds>>

\* `municipios.reverse().filter(...)`: the record list is reordered in place.
SearchMunicipiosReversing(query) ==
  /\ Idle
  /\ call' = [op |-> "searchMunicipios", query |-> query]
  /\ result' = searchMunicipios(municipios, query)
  /\ municipios' = [i \in 1..Len(municipios) |->
                      municipios[Len(municipios) + 1 - i]]
  /\ UNCHANGED <<municipiosByUf, stats, _index, indexBuilds>>

SearchMunicipios(query) ==
  /\ Idle
  /\ call' = [op |-> "searchMunicipios", query |-> query]
  /\ result' = searchMunicipios(municipios, query)
  /\ UNCHANGED <<data, _index, indexBuilds>>

GetFlagPath(ibgeCode, style, format) ==
  /\ Idle
  /\ GetIndexEffect
  /\ call' = [op |-> "getFlagPath", ibgeCode |-> ibgeCode, style |-> style,
              format |-> format]
  /\ result' = getFlagPath(_index, municipios, ibgeCode, style, format)
  /\ UNCHANGED data

GetFlagUrl(ibgeCode, style, format, baseUrl) ==
  /\ Idle
  /\ GetIndexEffect
  /\ call' = [op |-> "getFlagUrl", ibgeCode |-> ibgeCode, style |-> style,
              format |-> format, baseUrl |-> baseUrl]
  /\ result' = getFlagUrl(_index, municipios, ibgeCode, style, format, baseUrl)
  /\ UNCHANGED data

GetAllFlagPaths(ibgeCode) ==
  /\ Idle
  /\ GetIndexEffect
  /\ call' = [op |-> "getAllFlagPaths", ibgeCode |-> ibgeCode]
  /\ result' = getAllFlagPaths(_index, municipios, ibgeCode)
  /\ UNCHANGED data

BuildFlagPath(uf, ibgeCode, slug, style, format) ==
  /\ Idle
  /\ call' = [op |-> "buildFlagPath", uf |-> uf, ibgeCode |-> ibgeCode,
              slug |-> slug, style |-> style, format |-> format]
  /\ result' = [kind |-> "string",
                val |-> buildFlagPath(uf, ibgeCode, slug, style, format)]
  /\ UNCHANGED <<data, _index, indexBuilds>>

(***************************************************************************)
(* Arguments the calls are made with                                       *)
(***************************************************************************)
\* Raw strings that are not state codes.
RawUfs ==
  { <<>>, <<"X","X">>, <<"s","p">> } \cup ObjectPrototypeKeys

UfArgs == ALL_UFS \cup RawUfs

Queries ==
  { <<>>, <<" "," "," ">>, <<"s","a","o">>, <<"S","A","O">>,
    <<" ","S","a","o","\t">>, <<"ã">>, <<"Ã">>, <<"a"," ","b">>, <<"a","-","b">>,
    <<"r","i","o">>, <<"R","i","O"," ">>, <<"o","-">>, <<"z">> }

BaseUrls ==
  { <<>>, <<"/">>, <<"h">>, <<"h","/">>, <<"h","/","/">> }

SaoPaulo == <<"s","a","o","-","p","a","u","l","o">>

SaoPauloCode == 3550308

Next ==
  \/ \E c \in Codes : GetMunicipio(c)
  \/ \E u \in UfArgs : GetMunicipiosByUf(u)
  \/ \E u \in {Undefined} \cup { Given(v) : v \in UfArgs } :
       GetMunicipiosWithFlags(u)
  \/ \E q \in Queries : SearchMunicipios(q)
  \/ \E c \in Codes, s \in FlagStyle, f \in FlagFormat : GetFlagPath(c, s, f)
  \/ \E c \in Codes, s \in FlagStyle, f \in FlagFormat, b \in BaseUrls :
       GetFlagUrl(c, s, f, b)
  \/ \E c \in Codes : GetAllFlagPaths(c)
  \/ \E u \in {SP, <<"A","/","1","-","b">>}, c \in {12, SaoPauloCode},
        s \in FlagStyle, f \in FlagFormat :
       BuildFlagPath(u, c, SaoPaulo, s, f)
  \/ Return

PathUfs == { SP, <<"A">>, <<"A","/","1","-","b">> }

PathCodes == { 1, 2, 12, SaoPauloCode }

PathSlugs == { <<"c">>, <<"2","-","c">>, <<"b","/","2","-","c">>, SaoPaulo }

\* buildFlagPath alone, over a wider set of components.
InitPath == Init /\ municipios = <<>>

NextPath ==
  \/ \E u \in PathUfs, c \in PathCodes, g \in PathSlugs,
        s \in FlagStyle, f \in FlagFormat :
       BuildFlagPath(u, c, g, s, f)
  \/ Return

SpecPath == InitPath /\ [][NextPath]_vars

Spec == Init /\ [][Next]_vars

(***************************************************************************)
(* Properties                                                              *)
(***************************************************************************)
\* r holds exactly the records of ms at the positions pos, each once, in the
\* order of ms: its k-th element is the record at the k-th smallest position.
IsSelection(r, ms, pos) ==
  /\ Len(r) = Cardinality(pos)
  /\ \A k \in 1..Len(r) :
       \E i \in pos : /\ Cardinality({ j \in pos : j < i }) = k - 1
                      /\ r[k] = ms[i]

DistinctCodes ==
  \A i, j \in DOMAIN municipios :
    municipios[i].ibge_code = municipios[j].ibge_code => i = j

HoldersOf(ibgeCode) ==
  { i \in DOMAIN municipios : municipios[i].ibge_code = ibgeCode }

\* C1: over a dataset with pairwise distinct ibge_code values, whatever calls
\* came before, getMunicipio(c) returns the record whose ibge_code is c when
\* there is one, and undefined when there is none.
C1_LookupByCode ==
  (call.op = "getMunicipio" /\ DistinctCodes) =>
    IF HoldersOf(call.ibgeCode) = {}
    THEN result.kind = "undefined"
    ELSE /\ result.kind = "record"
         /\ \E i \in HoldersOf(call.ibgeCode) : result.val = municipios[i]

C1_Witness ==
  /\ call.op = "getMunicipio"
  /\ DistinctCodes
  /\ Len(municipios) = 3
  /\ result.kind = "record"
  /\ result.val = municipios[1]
  /\ result.val # municipios[3]

CodeKeyedOps == {"getMunicipio", "getFlagPath", "getFlagUrl", "getAllFlagPaths"}

\* C2: the index is unbuilt until the first code-keyed lookup; that lookup
\* runs the build loop once, over every record; once built the index and the
\* build count never change again; and a step that is not a code-keyed lookup
\* (getMunicipiosByUf, getMunicipiosWithFlags, searchMunicipios,
\* buildFlagPath, a return) never touches the index.
C2_LazyBuiltOnce ==
  [][ /\ ~_index.built => indexBuilds = 0
      /\ _index.built =>
           /\ indexBuilds = 1
           /\ _index'.built
           /\ DOMAIN _index'.map = DOMAIN _index.map
           /\ \A c \in DOMAIN _index.map : _index'.map[c] = _index.map[c]
           /\ indexBuilds' = 1
      /\ (~_index.built /\ call'.op \in CodeKeyedOps) =>
           /\ _index'.built
           /\ indexBuilds' = 1
           /\ DOMAIN _index'.map =
                { municipios[i].ibge_code : i \in DOMAIN municipios }
           /\ \A c \in DOMAIN _index'.map :
                \E i \in HoldersOf(c) : _index'.map[c] = municipios[i]
      /\ call'.op \notin CodeKeyedOps =>
           /\ _index'.built = _index.built
           /\ indexBuilds' = indexBuilds
    ]_vars

C2_Witness ==
  /\ call.op = "searchMunicipios"
  /\ _index.built
  /\ indexBuilds = 1
  /\ Len(municipios) = 3

\* C3: for each of the 27 state codes u, getMunicipiosByUf(u) returns exactly
\* the records of the full list whose uf is u, each once, in list order.
C3_ByUfIsPartition ==
  (call.op = "getMunicipiosByUf" /\ call.uf \in ALL_UFS) =>
    /\ result.kind = "array"
    /\ IsSelection(result.val, municipios,
                   { i \in DOMAIN municipios : municipios[i].uf = call.uf })

C3_Witness ==
  /\ call.op = "getMunicipiosByUf"
  /\ call.uf = SP
  /\ Len(municipios) = 3
  /\ municipios[2].uf = RJ
  /\ result.kind = "array"
  /\ Len(result.val) = 2
  /\ result.val[1] # result.val[2]

\* What is left of q after removing some white space from its two ends.
Cores(q) ==
  { SubSeq(q, p[1], p[2]) :
      p \in { x \in (1..(Len(q) + 1)) \X (0..Len(q)) :
                /\ x[2] >= x[1] - 1
                /\ \A k \in 1..(x[1] - 1) : q[k] \in WhiteSpace
                /\ \A k \in (x[2] + 1)..Len(q) : q[k] \in WhiteSpace } }

\* The same characters up to letter case.
CaseEq(a, b) ==
  /\ Len(a) = Len(b)
  /\ \A i \in 1..Len(a) :
       \/ a[i] = b[i]
       \/ a[i] \in DOMAIN LowerOf /\ LowerOf[a[i]] = b[i]
       \/ b[i] \in DOMAIN LowerOf /\ LowerOf[b[i]] = a[i]

DifferOnlyInCaseOrPadding(q1, q2) ==
  \E c1 \in Cores(q1), c2 \in Cores(q2) : CaseEq(c1, c2)

NormalizedQuery(query) == toLowerCase(trim(query))

\* C4: searchMunicipios returns nothing for a query that is empty once trimmed
\* and lower-cased; otherwise exactly the records whose lower-cased name or
\* whose slug contains the normalized query, in list order; and any query that
\* differs from this one only in letter case or surrounding white space
\* returns the same records.
C4_Search ==
  call.op = "searchMunicipios" =>
    LET q == NormalizedQuery(call.query)
    IN  /\ result.kind = "array"
        /\ IF Len(q) = 0 THEN Len(result.val) = 0
           ELSE IsSelection(result.val, municipios,
                  { i \in DOMAIN municipios :
                      \/ includes(toLowerCase(municipios[i].name), q)
                      \/ includes(municipios[i].slug, q) })
        /\ \A q2 \in Queries :
             DifferOnlyInCaseOrPadding(call.query, q2) =>
               searchMunicipios(municipios, q2).val = result.val

C4_Witness ==
  /\ call.op = "searchMunicipios"
  /\ call.query = <<"R","i","O"," ">>
  /\ Len(municipios) = 3
  /\ Len(result.val) = 1
  /\ result.val[1] = municipios[3]
  /\ searchMunicipios(municipios, <<"r","i","o">>).val = result.val

\* The record the index holds for a code: the last one of the list with it.
IndexedRecord(ibgeCode) ==
  municipios[CHOOSE i \in HoldersOf(ibgeCode) :
               \A j \in HoldersOf(ibgeCode) : j <= i]

\* C5: getFlagPath(code, style, format) returns the entry under the key
\* "{style}_{format}" of the icon-path map of the record with that code, and
\* null exactly when no record has the code, the record has no icon-path map,
\* or the map has no entry under that key.
C5_FlagPath ==
  call.op = "getFlagPath" =>
    LET key == call.style \o <<"_">> \o call.format
        notFound ==
          \/ HoldersOf(call.ibgeCode) = {}
          \/ ~IndexedRecord(call.ibgeCode).icons.present
          \/ key \notin DOMAIN IndexedRecord(call.ibgeCode).icons.map
    IN  IF notFound THEN result.kind = "null"
        ELSE /\ result.kind = "string"
             /\ result.val = IndexedRecord(call.ibgeCode).icons.map[key]

C5_Witness ==
  /\ call.op = "getFlagPath"
  /\ HoldersOf(call.ibgeCode) # {}
  /\ IndexedRecord(call.ibgeCode).icons.present
  /\ call.style = SquareRounded
  /\ call.format = Png800
  /\ result.kind = "null"

\* C6: for a base URL b that does not end in "/", getFlagUrl with base b and
\* with base b + "/" return the same value: null when getFlagPath returns
\* null, and b + "/" + path when getFlagPath returns a path.
C6_FlagUrl ==
  call.op = "getFlagUrl" =>
    LET n == Len(call.baseUrl)
        b == IF n > 0 /\ call.baseUrl[n] = "/"
             THEN SubSeq(call.baseUrl, 1, n - 1) ELSE call.baseUrl
        path == getFlagPath(_index, municipios, call.ibgeCode, call.style,
                            call.format)
        plain == getFlagUrl(_index, municipios, call.ibgeCode, call.style,
                            call.format, b)
        slashed == getFlagUrl(_index, municipios, call.ibgeCode, call.style,
                              call.format, b \o <<"/">>)
    IN  (Len(b) = 0 \/ b[Len(b)] # "/") =>
          IF path.kind = "null"
          THEN result.kind = "null" /\ plain.kind = "null" /\ slashed.kind = "null"
          ELSE /\ result.kind = "string"
               /\ result.val = b \o <<"/">> \o path.val
               /\ plain.kind = "string" /\ plain.val = result.val
               /\ slashed.kind = "string" /\ slashed.val = result.val

C6_Witness ==
  /\ call.op = "getFlagUrl"
  /\ call.baseUrl = <<"h","/">>
  /\ result.kind = "string"
  /\ Len(result.val) > 2
  /\ SubSeq(result.val, 1, 3) = <<"h","/","c">>

SuffixOf(style) ==
  CASE style = Full -> <<"f","u","l","l">>
    [] style = Rounded -> <<"r","o","u","n","d","e","d">>
    [] style = Circle -> <<"c","i","r","c","l","e">>
    [] style = SquareRounded -> <<"s","q">>

ExtOf(format) ==
  CASE format = Svg -> <<"s","v","g">>
    [] format \in {Png200, Png800} -> <<"p","n","g">>

\* C7: buildFlagPath never fails, leaves the index as it was (built or not)
\* and returns {style}/{format}/{uf}/{ibgeCode}-{slug}-{suffix}.{ext}, with
\* suffix full, rounded, circle, sq and ext svg for svg, png for both PNG sizes;
\* ("SP", 3550308, "sao-paulo", "circle", "svg") gives
\* "circle/svg/SP/3550308-sao-paulo-circle.svg".
C7_BuildFlagPath ==
  [][ call'.op = "buildFlagPath" =>
        /\ result'.kind = "string"
        /\ result'.val =
             call'.style \o <<"/">> \o call'.format \o <<"/">> \o call'.uf \o
             <<"/">> \o NumberToString(call'.ibgeCode) \o <<"-">> \o
             call'.slug \o <<"-">> \o SuffixOf(call'.style) \o <<".">> \o
             ExtOf(call'.format)
        /\ ( /\ call'.uf = <<"S","P">>
             /\ call'.ibgeCode = 3550308
             /\ call'.slug = <<"s","a","o","-","p","a","u","l","o">>
             /\ call'.style = Circle
             /\ call'.format = Svg ) =>
             result'.val =
               <<"c","i","r","c","l","e","/","s","v","g","/","S","P","/",
                 "3","5","5","0","3","0","8","-","s","a","o","-","p","a","u",
                 "l","o","-","c","i","r","c","l","e",".","s","v","g">>
        /\ _index' = _index
        /\ indexBuilds' = indexBuilds
    ]_vars

C7_Witness ==
  /\ call.op = "buildFlagPath"
  /\ call.style = SquareRounded
  /\ call.format = Png800
  /\ call.ibgeCode = 3550308
  /\ ~_index.built
  /\ Len(municipios) = 3

\* C8: getMunicipiosWithFlags(u) for a state code u returns exactly the
\* records of that state with has_icons, in list order, as many as the
\* statistics count for u; with no argument it returns exactly the records of
\* the full list with has_icons, in list order.
C8_WithFlags ==
  call.op = "getMunicipiosWithFlags" =>
    IF ~call.uf.given
    THEN /\ result.kind = "array"
         /\ IsSelection(result.val, municipios,
              { i \in DOMAIN municipios : municipios[i].has_icons })
    ELSE call.uf.val \in ALL_UFS =>
         LET ofState == getMunicipiosByUf(municipiosByUf, call.uf.val).val
         IN  /\ result.kind = "array"
             /\ IsSelection(result.val, ofState,
                  { k \in DOMAIN ofState : ofState[k].has_icons })
             /\ IsSelection(result.val, municipios,
                  { i \in DOMAIN municipios :
                      municipios[i].uf = call.uf.val /\ municipios[i].has_icons })
             /\ Len(result.val) = stats.by_uf[call.uf.val].with_icons

C8_Witness ==
  /\ call.op = "getMunicipiosWithFlags"
  /\ call.uf.given
  /\ call.uf.val = RJ
  /\ Len(municipios) = 3
  /\ municipios[1].uf = RJ /\ ~municipios[1].has_icons
  /\ municipios[2].uf = SP
  /\ Len(result.val) = 1
  /\ result.val[1] = municipios[3]

\* C9: for every state-code argument that is not one of the 27 codes, the
\* empty string included, getMunicipiosByUf and getMunicipiosWithFlags return
\* an empty array and do not fail.
C9_UnknownUfIsEmpty ==
  /\ (call.op = "getMunicipiosByUf" /\ call.uf \notin ALL_UFS) =>
       (result.kind = "array" /\ Len(result.val) = 0)
  /\ (call.op = "getMunicipiosWithFlags" /\ call.uf.given
        /\ call.uf.val \notin ALL_UFS) =>
       (result.kind = "array" /\ Len(result.val) = 0)

PathArgs == PathUfs \X PathCodes \X PathSlugs \X FlagStyle \X FlagFormat

PathOf(a) == buildFlagPath(a[1], a[2], a[3], a[4], a[5])

CallArgs == <<call.uf, call.ibgeCode, call.slug, call.style, call.format>>

\* C10 as stated: any other tuple of components yields another path.
C10_Injective ==
  call.op = "buildFlagPath" =>
    \A a \in PathArgs : a # CallArgs => PathOf(a) # result.val

HasSlash(s) == \E i \in 1..Len(s) : s[i] = "/"

\* C10, amended: the same tuple always yields the same path, and two tuples
\* whose uf holds no "/" (as no state code does) and that differ in some
\* component yield different paths.
C10_InjectiveForPlainUf ==
  call.op = "buildFlagPath" =>
    /\ PathOf(CallArgs) = result.val
    /\ ~HasSlash(call.uf) =>
         \A a \in PathArgs :
           (~HasSlash(a[1]) /\ a # CallArgs) => PathOf(a) # result.val

C10_Witness ==
  /\ call.op = "buildFlagPath"
  /\ call.uf = <<"A">>
  /\ call.ibgeCode = 1
  /\ call.slug = <<"b","/","2","-","c">>
  /\ PathOf(<<<<"A","/","1","-","b">>, 2, <<"c">>, call.style, call.format>>)
       = result.val
  /\ PathOf(<<<<"A">>, 12, <<"c">>, call.style, call.format>>) # result.val

\* What a call returns when it is the first call made after the data is loaded.
FirstResult(c) ==
  CASE c.op = "getMunicipio" -> getMunicipio(Null, municipios, c.ibgeCode)
    [] c.op = "getMunicipiosByUf" -> getMunicipiosByUf(municipiosByUf, c.uf)
    [] c.op = "getMunicipiosWithFlags" ->
         getMunicipiosWithFlags(municipios, municipiosByUf, c.uf)
    [] c.op = "searchMunicipios" -> searchMunicipios(municipios, c.query)
    [] c.op = "getFlagPath" ->
         getFlagPath(Null, municipios, c.ibgeCode, c.style, c.format)
    [] c.op = "getFlagUrl" ->
         getFlagUrl(Null, municipios, c.ibgeCode, c.style, c.format, c.baseUrl)
    [] c.op = "getAllFlagPaths" -> getAllFlagPaths(Null, municipios, c.ibgeCode)
    [] c.op = "buildFlagPath" ->
         [kind |-> "string",
          val |-> buildFlagPath(c.uf, c.ibgeCode, c.slug, c.style, c.format)]

SameResult(a, b) ==
  /\ a.kind = b.kind
  /\ a.kind \in {"record", "array", "string", "icons"} => a.val = b.val

\* C11: no step changes the record list, the by-state grouping or the
\* statistics; the index changes only when it goes from unbuilt to built and
\* is left alone once built; and every call returns what the same call returns
\* as the first call after load, wherever in a call sequence it is made.
C11_OnlyIndexChangesOnce ==
  [][ /\ municipios' = municipios
      /\ municipiosByUf' = municipiosByUf
      /\ stats' = stats
      /\ _index' # _index => (~_index.built /\ _index'.built)
      /\ _index.built => _index' = _index
      /\ call'.op # "none" => SameResult(result', FirstResult(call'))
    ]_vars

C11_Witness ==
  /\ call.op = "getMunicipiosWithFlags"
  /\ ~call.uf.given
  /\ _index.built
  /\ indexBuilds = 1
  /\ Len(municipios) = 3
  /\ Len(result.val) = 2
  /\ SameResult(result, FirstResult(call))

Duplicated(ibgeCode) == Cardinality(HoldersOf(ibgeCode)) >= 2

\* C12: when several records share an ibge_code the index is still built, and
\* getMunicipio, getFlagPath, getFlagUrl and getAllFlagPaths resolve that code
\* to the record that comes last in the list, while searchMunicipios and
\* getMunicipiosWithFlags() return every record that qualifies, duplicates
\* included.
C12_DuplicateLastWins ==
  /\ (call.op \in CodeKeyedOps /\ ~DistinctCodes) =>
       /\ _index.built
       /\ DOMAIN _index.map =
            { municipios[i].ibge_code : i \in DOMAIN municipios }
  /\ (call.op = "getMunicipio" /\ Duplicated(call.ibgeCode)) =>
       /\ result.kind = "record"
       /\ result.val = IndexedRecord(call.ibgeCode)
  /\ (call.op = "getAllFlagPaths" /\ Duplicated(call.ibgeCode)) =>
       IF IndexedRecord(call.ibgeCode).icons.present
       THEN /\ result.kind = "icons"
            /\ result.val = IndexedRecord(call.ibgeCode).icons.map
       ELSE result.kind = "null"
  /\ (call.op \in {"getFlagPath", "getFlagUrl"} /\ Duplicated(call.ibgeCode)) =>
       LET last == IndexedRecord(call.ibgeCode)
           key == call.style \o <<"_">> \o call.format
       IN  IF last.icons.present /\ key \in DOMAIN last.icons.map
           THEN /\ result.kind = "string"
                /\ Len(result.val) >= Len(last.icons.map[key])
                /\ SubSeq(result.val,
                          Len(result.val) - Len(last.icons.map[key]) + 1,
                          Len(result.val)) = last.icons.map[key]
                /\ call.op = "getFlagPath" => result.val = last.icons.map[key]
           ELSE result.kind = "null"
  /\ (call.op = "searchMunicipios" /\ ~DistinctCodes) =>
       LET q == NormalizedQuery(call.query)
       IN  IsSelection(result.val, municipios,
             { i \in DOMAIN municipios :
                 /\ Len(q) > 0
                 /\ \/ includes(toLowerCase(municipios[i].name), q)
                    \/ includes(municipios[i].slug, q) })
  /\ (call.op = "getMunicipiosWithFlags" /\ ~call.uf.given /\ ~DistinctCodes) =>
       IsSelection(result.val, municipios,
         { i \in DOMAIN municipios : municipios[i].has_icons })

C12_Witness ==
  /\ call.op = "getMunicipio"
  /\ Len(municipios) = 3
  /\ HoldersOf(call.ibgeCode) = {1, 3}
  /\ municipios[1] # municipios[3]
  /\ result.kind = "record"
  /\ result.val = municipios[3]
====
